---- MODULE Spec2Model ----
(***************************************************************************)
(* Model of the task / session orchestration core of the transcript agent  *)
(* service (src/transcript_service.py, src/agent/helper.py,                *)
(* src/agent/agent_meta.py, src/storage/conversation_repository.py,        *)
(* src/transcript_engine.py).                                              *)
(*                                                                         *)
(* Scheduling.  The service runs on one asyncio event loop.  A coroutine    *)
(* gives up control only where it awaits something that is not ready:      *)
(* Runner.run, the next item of streamed.stream_events(), Queue.get on an  *)
(* empty queue, and the start of a response body.  Awaiting a coroutine    *)
(* that itself never suspends (create_agent, Queue.put on an unbounded     *)
(* queue, the call into the run helpers) does not yield.  Each action below *)
(* is the code between two such suspension points.                         *)
(*                                                                         *)
(* Text is a sequence of tokens; the empty string is <<>>.                 *)
(***************************************************************************)
EXTENDS Integers, Sequences, FiniteSets, TLC

\* ------------------------------------------------------------------ bounds
MaxEvents == 1          \* stream events one agent run yields before it ends
MaxStreaming == 1       \* how many of the tasks (in order t1, t2) may ask for streaming

\* ------------------------------------------------------------------ inputs
TaskIds == {"t1", "t2"}
ConvIds == {"c1", "c2"}
MsgIds == {"m1", "m2"}
NoPath == "none"
Paths == {"p_ok", "p_missing"}
PromptOf(m) == <<"q", m>>      \* the question a message id carries
Deltas == {"a"}

\* The transcript files of the environment: which paths open, and what they
\* hold.  Conversation c2 has a transcript at its default location, c1 has
\* none; p_empty is a file of zero length.
DefaultPath(c) == "transcripts/" \o c \o ".txt"
Readable(path) == path \in {"p_ok", "p_empty", DefaultPath("c2")}
FileContent(path) ==
    CASE path = "p_ok" -> "T1"
      [] path = "p_empty" -> ""
      [] OTHER -> "T0"

\* -------------------------------------------------------------- data model
NoId == "none"
NoText == <<"null">>    \* SQL NULL / Python None where a text may stand

TaskStatus(status, result, failure) ==
    [status |-> status, result |-> result, failure |-> failure]
NoResult == [text |-> NoText, conversation_id |-> NoId]
NoFailure == "none"
NoTask == TaskStatus("NONE", NoResult, NoFailure)

TaskRequest(c, m, p, path, s) ==
    [conversation |-> c, message |-> m, prompt |-> p, transcript_path |-> path, stream |-> s]
NoRequest == TaskRequest(NoId, NoId, <<>>, NoPath, FALSE)

AgentSession(c, m) ==
    [conversation_id |-> c, message_id |-> m, answers |-> <<>>, transcript |-> ""]
NoSession == AgentSession(NoId, NoId)

NoFile == [exists |-> FALSE, transcript |-> "", answers |-> <<>>]
NoAgent == [by |-> NoId, transcript |-> ""]

Sentinel == [type |-> "None"]
\* Mutant: the delta event carries the fragment where the cumulative text belongs.
DeltaEvent_fragment_only(d, acc) == [type |-> "delta", delta |-> d, accumulated |-> <<d>>]

DeltaEvent(d, acc) == [type |-> "delta", delta |-> d, accumulated |-> acc]
ItemEvent(ty) == [type |-> "event", event_type |-> ty]
DoneEvent(text, c) == [type |-> "done", text |-> text, conversation_id |-> c]
ErrorEvent(e) == [type |-> "error", error |-> e]
EndEvent == [type |-> "end"]

Take(s, n) == IF Len(s) <= n THEN s ELSE SubSeq(s, 1, n)

VARIABLES
    tasks,              \* self.tasks: task id -> TaskStatus
    streaming_tasks,    \* keys of self.streaming_tasks
    queues,             \* the asyncio.Queue allocated for a task id (held by reference)
    agents,             \* self.agents[c]['agent'] (+ the sqlite session made with it)
    agent_session,      \* self.agents[c]['agent_session']
    transcript_paths,   \* self.transcript_paths
    conv_files,         \* conversations/<conversation id> flat files
    has_repo,           \* self.repo is not None
    conversations,      \* table conversations
    messages,           \* table messages
    pc,                 \* where each task's coroutine stands
    request,            \* the TaskRequest of each task
    locals,             \* local variables of _process_task and the run helpers
    produced,           \* history: every item put on the task's queue, in order
    constructed,        \* history: agents constructed per conversation, in order
    updates,            \* history: update_message calls, with the session's message_id then
    raised,             \* history: the message of the exception a task's step raised
    cpc,                \* where the streaming client stands
    ctask,              \* the task id the streaming client asked for
    emitted,            \* what the client's event_generator has yielded so far
    artifacts,          \* table artifacts
    last_artifact_id,   \* sqlite_sequence of table artifacts (AUTOINCREMENT)
    now,                \* datetime.now()
    sent,               \* history (RepoSpec): what create_message / update_message were last given
    made,               \* history (RepoSpec): ids create_artifact returned, per message uuid given
    hash_files,         \* the transcript file at the path derived from a content hash
    jobs,               \* background transcription jobs that have not run yet
    uploads,            \* history: the answer to every upload, in order
    transcribed,        \* history: transcriptions invoked / completed, per uploaded bytes
    cpc2,               \* where a second streaming client stands
    ctask2,             \* the task id the second client asked for
    emitted2,           \* what the second client's event_generator has yielded so far
    loaded              \* history: what POST /transcript/load last stored per conversation

\* The state of the task orchestration, of the stream client, and the rest.
service_vars == <<tasks, streaming_tasks, queues, agents, agent_session, transcript_paths,
                  conv_files, pc, request, locals, produced, constructed, updates, raised>>
client_vars == <<cpc, ctask, emitted>>
client2_vars == <<cpc2, ctask2, emitted2>>
repo_vars == <<artifacts, last_artifact_id, now, sent, made>>
engine_vars == <<hash_files, jobs, uploads, transcribed>>

vars == <<tasks, streaming_tasks, queues, agents, agent_session, transcript_paths,
          conv_files, has_repo, conversations, messages, pc, request, locals,
          produced, constructed, updates, raised, cpc, ctask, emitted,
          artifacts, last_artifact_id, now, sent, made,
          hash_files, jobs, uploads, transcribed, cpc2, ctask2, emitted2, loaded>>

NoLocals == [stream_queue |-> FALSE, message_id |-> NoId, agent |-> NoAgent,
             full_text |-> <<>>, nevents |-> 0]
NoConversation == [exists |-> FALSE, title |-> NoText, created_at |-> 0, updated_at |-> 0,
                   message_count |-> 0]
NoMessage == [exists |-> FALSE, conversation_uuid |-> NoId, task_id |-> NoId,
              prompt |-> NoText, answer |-> NoText, summary |-> NoText, created_at |-> 0]
Bytes == {"B1", "B2", "B3"}
Hashes == {"h1", "h2"}
NoHashFile == [exists |-> FALSE, writes |-> 0]
NoSent == [prompt |-> NoText, answer |-> NoText, summary |-> NoText, updates |-> 0]
NeverLoaded == [happened |-> FALSE, transcript |-> "", before |-> {}]

Init ==
    /\ tasks = [t \in TaskIds |-> NoTask]
    /\ streaming_tasks = {}
    /\ queues = [t \in TaskIds |-> <<>>]
    /\ agents = [c \in ConvIds |-> NoAgent]
    /\ agent_session = [c \in ConvIds |-> NoSession]
    /\ transcript_paths = [c \in ConvIds |-> NoPath]
    /\ conv_files = [c \in ConvIds |-> NoFile]
    /\ has_repo \in BOOLEAN
    /\ conversations = [c \in ConvIds |-> NoConversation]
    /\ messages = [m \in MsgIds |-> NoMessage]
    /\ pc = [t \in TaskIds |-> "new"]
    /\ request = [t \in TaskIds |-> NoRequest]
    /\ locals = [t \in TaskIds |-> NoLocals]
    /\ produced = [t \in TaskIds |-> <<>>]
    /\ constructed = [c \in ConvIds |-> <<>>]
    /\ updates = {}
    /\ raised = [t \in TaskIds |-> NoFailure]
    /\ cpc = "idle"
    /\ ctask = NoId
    /\ emitted = <<>>
    /\ artifacts = {}
    /\ last_artifact_id = 0
    /\ now = 0
    /\ sent = [m \in MsgIds |-> NoSent]
    /\ made = [m \in MsgIds |-> {}]
    /\ hash_files = [h \in Hashes |-> NoHashFile]
    /\ jobs = {}
    /\ uploads = <<>>
    /\ transcribed = [b \in Bytes |-> [invoked |-> 0, completed |-> 0]]
    /\ cpc2 = "idle"
    /\ ctask2 = NoId
    /\ emitted2 = <<>>
    /\ loaded = [c \in ConvIds |-> NeverLoaded]

\* ------------------------------------------------------- exception messages
NotFoundError(path) == "404: Transcript file not found: " \o path
IntegrityError == "UNIQUE constraint failed: messages.uuid"
AgentError == "agent run failed"
AttributeError == "'NoneType' object has no attribute 'update_message'"

\* ------------------------------------------------------------ AgentSession
load(session, c) ==
    IF conv_files[c].exists
    THEN [session EXCEPT !.answers = conv_files[c].answers,
                         !.transcript = conv_files[c].transcript]
    ELSE session

save(session) ==
    [exists |-> TRUE, transcript |-> session.transcript, answers |-> session.answers]

\* Mutant: the answer is not appended.
add_answer_dropped(session, answer) == session

\* Mutant: the answer replaces the list instead of extending it.
add_answer_overwrite(session, answer) == [session EXCEPT !.answers = <<answer>>]

add_answer(session, answer) == [session EXCEPT !.answers = Append(@, answer)]

\* ------------------------------------------------------ answer extraction
NoOutput == [kind |-> "none", text |-> <<>>]
StrOutput(text) == [kind |-> "str", text |-> text]
FinalOutputs == {NoOutput, StrOutput(<<"f">>)}

Str(final_output) ==
    IF final_output.kind = "none" THEN <<"None">> ELSE <<"repr">>

\* What Runner.run returns.  The run result of the agents library has the
\* attribute final_output (None when the run produced none); lines 425-441
\* also provide for a result without it: one with message items, one with
\* messages, one with neither.
RunResult(final_output) == [kind |-> "final_output", final_output |-> final_output, text |-> <<>>]
ItemsResult(text) == [kind |-> "new_items", final_output |-> NoOutput, text |-> text]
MessagesResult(text) == [kind |-> "messages", final_output |-> NoOutput, text |-> text]
BareResult == [kind |-> "bare", final_output |-> NoOutput, text |-> <<>>]
Results == {RunResult(final_output) : final_output \in FinalOutputs}

\* str(result)
StrOfResult == <<"RunResult">>

_extract_answer_text(result) ==
    CASE result.kind = "final_output" ->
            (CASE result.final_output.kind = "str" -> result.final_output.text
               [] result.final_output.kind = "text_content" -> result.final_output.text
               [] OTHER -> Str(result.final_output))
      [] result.kind = "new_items" -> result.text
      [] result.kind = "messages" -> result.text
      [] OTHER -> StrOfResult

_extract_answer_text_from_final(final_output) ==
    CASE final_output.kind = "none" -> <<>>
      [] final_output.kind = "str" -> final_output.text
      [] final_output.kind = "text_content" -> final_output.text
      [] OTHER -> Str(final_output)

\* `x or y` on strings
Or(x, y) == IF x # <<>> THEN x ELSE y

\* ------------------------------------------------------ ConversationRepository
TitleLen == 50
SummaryLen == 200

\* UPDATE ... SET updated_at = ?, title = COALESCE(?, title), or INSERT.
create_or_update_conversation(convs, c, title) ==
    IF convs[c].exists
    THEN [convs EXCEPT ![c].updated_at = now,
                       ![c].title = IF title # NoText THEN title ELSE @]
    ELSE [convs EXCEPT ![c] = [exists |-> TRUE, title |-> title, created_at |-> now,
                               updated_at |-> now, message_count |-> 0]]

\* The INSERT of create_message (answer and summary left at their default, NULL).
create_message(msgs, m, c, t, prompt) ==
    [msgs EXCEPT ![m] = [exists |-> TRUE, conversation_uuid |-> c, task_id |-> t,
                         prompt |-> prompt, answer |-> NoText, summary |-> NoText,
                         created_at |-> now]]

\* Mutant: create_message counts the message and leaves updated_at alone.
bump_message_count_only(convs, c) ==
    IF convs[c].exists THEN [convs EXCEPT ![c].message_count = @ + 1] ELSE convs

\* The UPDATE of create_message: it touches the conversation row if there is one.
bump_message_count(convs, c) ==
    IF convs[c].exists
    THEN [convs EXCEPT ![c].message_count = @ + 1, ![c].updated_at = now]
    ELSE convs

update_message(msgs, m, answer, summary) ==
    IF msgs[m].exists
    THEN [msgs EXCEPT ![m].answer = IF answer # NoText THEN answer ELSE @,
                      ![m].summary = IF summary # NoText THEN summary ELSE @]
    ELSE msgs

Title(prompt) == IF prompt # <<>> THEN Take(prompt, TitleLen) ELSE <<"Conversation">>
Summary(answer) == IF answer # <<>> THEN Take(answer, SummaryLen) ELSE NoText

\* ------------------------------------------------------------- create_task
\* Mutant: create_task allocates no queue.
register_queue_never(t, req) == streaming_tasks

register_queue(t, req) ==
    IF req.stream THEN streaming_tasks \cup {t} ELSE streaming_tasks

create_task(t, req) ==
    /\ pc[t] = "new"
    /\ tasks' = [tasks EXCEPT ![t] = TaskStatus("STARTED", NoResult, NoFailure)]
    /\ streaming_tasks' = register_queue(t, req)
    /\ request' = [request EXCEPT ![t] = req]
    /\ pc' = [pc EXCEPT ![t] = "scheduled"]
    /\ UNCHANGED <<queues, agents, agent_session, transcript_paths, conv_files, has_repo,
                   conversations, messages, locals, produced, constructed, updates,
                   raised, cpc, ctask, emitted>>
    /\ UNCHANGED <<repo_vars, engine_vars, client2_vars, loaded>>

\* ------------------------------------------- _process_task: session resolution
\* Mutant: the cache is not consulted.
AgentCached_never(c) == FALSE

AgentCached(c) == agents[c] # NoAgent

\* Mutant: the path of the request is not recorded.
StoredPaths_unrecorded(t) == transcript_paths

StoredPaths(t) ==
    LET r == request[t] IN
    IF r.transcript_path # NoPath
    THEN [transcript_paths EXCEPT ![r.conversation] = r.transcript_path]
    ELSE transcript_paths

LoadedSession(t) ==
    load(AgentSession(request[t].conversation, request[t].message), request[t].conversation)

NeedsTranscript(t) == LoadedSession(t).transcript = ""

\* Mutant: the path of the request is not looked at; only a path recorded
\* before counts.
SeedPath_recorded_only(t) ==
    LET c == request[t].conversation IN
    IF transcript_paths[c] # NoPath THEN transcript_paths[c] ELSE DefaultPath(c)

SeedPath(t) ==
    LET c == request[t].conversation IN
    IF StoredPaths(t)[c] # NoPath THEN StoredPaths(t)[c] ELSE DefaultPath(c)

\* Mutant: a transcript that cannot be opened is not an error.
ResolveFails_never(t) == FALSE

\* load_transcript raises HTTPException(404)
ResolveFails(t) ==
    /\ ~AgentCached(request[t].conversation)
    /\ NeedsTranscript(t)
    /\ ~Readable(SeedPath(t))

ResolvedSession(t) ==
    LET c == request[t].conversation IN
    IF AgentCached(c)
    THEN [agent_session[c] EXCEPT !.message_id = request[t].message]
    ELSE IF NeedsTranscript(t)
         THEN [LoadedSession(t) EXCEPT !.transcript = FileContent(SeedPath(t))]
         ELSE LoadedSession(t)

create_agent(t, transcript) == [by |-> t, transcript |-> transcript]

\* ------------------------------------------- _process_task: except / finally
\* The except block (error event and sentinel when streaming, status FAILED)
\* followed by the finally block (the queue leaves the registry).
\* Mutant: the except block forgets the sentinel.
except_items_no_sentinel(e) == <<ErrorEvent(e)>>

except_items(e) == <<ErrorEvent(e), Sentinel>>

\* Mutant: the except block swallows the exception and records nothing.
except_status_swallowed(e) == TaskStatus("STARTED", NoResult, NoFailure)

\* Mutant: the except block removes the task's entry from the registry.
except_status_dropped(e) == NoTask

\* Mutant: the except block records a fixed text instead of str(e).
except_status_generic(e) == TaskStatus("FAILED", NoResult, "error")

except_status(e) == TaskStatus("FAILED", NoResult, e)

\* Mutant: no finally block.
finally_missing(t) == streaming_tasks

finally(t) == streaming_tasks \ {t}

\* Mutant: the except block schedules the task again.
Fail_and_retry(t, stream_queue, e) ==
    /\ raised' = [raised EXCEPT ![t] = e]
    /\ queues' = IF stream_queue THEN [queues EXCEPT ![t] = @ \o except_items(e)] ELSE queues
    /\ produced' = IF stream_queue THEN [produced EXCEPT ![t] = @ \o except_items(e)]
                   ELSE produced
    /\ tasks' = [tasks EXCEPT ![t] = except_status(e)]
    /\ streaming_tasks' = finally(t)
    /\ pc' = [pc EXCEPT ![t] = "scheduled"]

Fail(t, stream_queue, e) ==
    /\ raised' = [raised EXCEPT ![t] = e]
    /\ queues' = IF stream_queue THEN [queues EXCEPT ![t] = @ \o except_items(e)] ELSE queues
    /\ produced' = IF stream_queue THEN [produced EXCEPT ![t] = @ \o except_items(e)]
                   ELSE produced
    /\ tasks' = [tasks EXCEPT ![t] = except_status(e)]
    /\ streaming_tasks' = finally(t)
    /\ pc' = [pc EXCEPT ![t] = "done"]

\* Lines 105-166 and the run helper up to its first suspension.
process_task(t) ==
    /\ pc[t] = "scheduled"
    /\ LET r == request[t]
           c == r.conversation
           m == r.message
           stream_queue == t \in streaming_tasks
           session == ResolvedSession(t)
           message_id == session.message_id
           agent == IF AgentCached(c) THEN agents[c] ELSE create_agent(t, session.transcript)
           upserted == create_or_update_conversation(conversations, c, Title(r.prompt))
       IN
       /\ transcript_paths' = StoredPaths(t)
       /\ IF ResolveFails(t)
          THEN /\ Fail(t, stream_queue, NotFoundError(SeedPath(t)))
               /\ locals' = [locals EXCEPT ![t].stream_queue = stream_queue]
               /\ UNCHANGED <<agents, agent_session, conv_files, conversations,
                              messages, constructed>>
          ELSE /\ agents' = [agents EXCEPT ![c] = agent]
               /\ agent_session' = [agent_session EXCEPT ![c] = session]
               /\ conv_files' = IF ~AgentCached(c) /\ NeedsTranscript(t)
                                THEN [conv_files EXCEPT ![c] = save(session)]
                                ELSE conv_files
               /\ constructed' = IF AgentCached(c) THEN constructed
                                 ELSE [constructed EXCEPT ![c] = Append(@, t)]
               /\ locals' = [locals EXCEPT ![t] =
                                [stream_queue |-> stream_queue, message_id |-> message_id,
                                 agent |-> agent, full_text |-> <<>>, nevents |-> 0]]
               /\ IF has_repo /\ messages[message_id].exists
                  THEN \* create_message: the INSERT violates the primary key
                       /\ conversations' = upserted
                       /\ UNCHANGED messages
                       /\ Fail(t, stream_queue, IntegrityError)
                  ELSE /\ conversations' = IF has_repo THEN bump_message_count(upserted, c)
                                           ELSE conversations
                       /\ messages' = IF has_repo
                                      THEN create_message(messages, message_id, c, t, r.prompt)
                                      ELSE messages
                       /\ pc' = [pc EXCEPT ![t] =
                                    IF r.stream /\ stream_queue THEN "streaming" ELSE "running"]
                       /\ UNCHANGED <<tasks, streaming_tasks, queues, produced, raised>>
    /\ UNCHANGED <<has_repo, request, updates, cpc, ctask, emitted>>
    /\ UNCHANGED <<repo_vars, engine_vars, client2_vars, loaded>>

\* The message uuid the run helpers pass to update_message: their local
\* message_id, read from the session record before the first suspension
\* (lines 195 and 251).
\* Mutant: the message id is read from the shared session record at the time
\* of the update.
update_target_shared(t) == agent_session[request[t].conversation].message_id

update_target(t) == locals[t].message_id

UpdateCall(t) ==
    [task |-> t, message_uuid |-> update_target(t),
     session_message_id |-> agent_session[request[t].conversation].message_id]

\* ------------------------------------------------ _run_agent_non_streaming
\* Runner.run returned `result`: lines 222-244, then the finally block.
run_returns(t, result) ==
    /\ pc[t] = "running"
    /\ LET c == request[t].conversation
           message_id == update_target(t)
           answer_text == _extract_answer_text(result)
           session == add_answer(agent_session[c], answer_text)
       IN
       /\ agent_session' = [agent_session EXCEPT ![c] = session]
       /\ conv_files' = [conv_files EXCEPT ![c] = save(session)]
       /\ messages' = IF has_repo
                      THEN update_message(messages, message_id, answer_text, Summary(answer_text))
                      ELSE messages
       /\ updates' = IF has_repo
                     THEN updates \cup {UpdateCall(t)}
                     ELSE updates
       /\ tasks' = [tasks EXCEPT ![t] =
                       TaskStatus("SUCCESS", [text |-> answer_text, conversation_id |-> c],
                                  NoFailure)]
    /\ streaming_tasks' = finally(t)
    /\ pc' = [pc EXCEPT ![t] = "done"]
    /\ UNCHANGED <<queues, agents, transcript_paths, has_repo, conversations, request,
                   locals, produced, constructed, raised, cpc, ctask, emitted>>
    /\ UNCHANGED <<repo_vars, engine_vars, client2_vars, loaded>>

\* Runner.run raised.
run_raises(t) ==
    /\ pc[t] = "running"
    /\ Fail(t, locals[t].stream_queue, AgentError)
    /\ UNCHANGED <<agents, agent_session, transcript_paths, conv_files, has_repo,
                   conversations, messages, request, locals, constructed, updates,
                   cpc, ctask, emitted>>
    /\ UNCHANGED <<repo_vars, engine_vars, client2_vars, loaded>>

\* ---------------------------------------------------- _run_agent_streaming
Streaming(t) == pc[t] \in {"streaming", "streaming_again"}

Put(t, items) ==
    /\ queues' = [queues EXCEPT ![t] = @ \o items]
    /\ produced' = [produced EXCEPT ![t] = @ \o items]

\* A raw_response_event with a text delta: lines 283-294 (and 353-364).
stream_delta_within(t, delta, bound) ==
    /\ Streaming(t)
    /\ locals[t].nevents < bound
    /\ LET full_text == locals[t].full_text \o <<delta>> IN
       /\ locals' = [locals EXCEPT ![t].full_text = full_text, ![t].nevents = @ + 1]
       /\ Put(t, <<DeltaEvent(delta, full_text)>>)
    /\ UNCHANGED <<tasks, streaming_tasks, agents, agent_session, transcript_paths,
                   conv_files, has_repo, conversations, messages, pc, request,
                   constructed, updates, raised, cpc, ctask, emitted>>
    /\ UNCHANGED <<repo_vars, engine_vars, client2_vars, loaded>>

stream_delta(t, delta) == stream_delta_within(t, delta, MaxEvents)

\* A run_item_stream_event: lines 296-303 (and 366-373).
stream_item_within(t, bound) ==
    /\ Streaming(t)
    /\ locals[t].nevents < bound
    /\ locals' = [locals EXCEPT ![t].nevents = @ + 1]
    /\ Put(t, <<ItemEvent("tool_call_item")>>)
    /\ UNCHANGED <<tasks, streaming_tasks, agents, agent_session, transcript_paths,
                   conv_files, has_repo, conversations, messages, pc, request,
                   constructed, updates, raised, cpc, ctask, emitted>>
    /\ UNCHANGED <<repo_vars, engine_vars, client2_vars, loaded>>

stream_item(t) == stream_item_within(t, MaxEvents)

\* stream_events() raised.
stream_raises(t) ==
    /\ Streaming(t)
    /\ Fail(t, locals[t].stream_queue, AgentError)
    /\ UNCHANGED <<agents, agent_session, transcript_paths, conv_files, has_repo,
                   conversations, messages, request, locals, constructed, updates,
                   cpc, ctask, emitted>>
    /\ UNCHANGED <<repo_vars, engine_vars, client2_vars, loaded>>

\* The first stream is exhausted: lines 305-338, then run_streamed again
\* (lines 340-348) up to the first event of the second stream.
stream_ends(t, final_output) ==
    /\ pc[t] = "streaming"
    /\ LET c == request[t].conversation
           message_id == update_target(t)
           answer_text == Or(_extract_answer_text_from_final(final_output),
                             locals[t].full_text)
           session == add_answer(agent_session[c], answer_text)
       IN
       /\ agent_session' = [agent_session EXCEPT ![c] = session]
       /\ conv_files' = [conv_files EXCEPT ![c] = save(session)]
       /\ messages' = IF has_repo
                      THEN update_message(messages, message_id, answer_text, Summary(answer_text))
                      ELSE messages
       /\ updates' = IF has_repo
                     THEN updates \cup {UpdateCall(t)}
                     ELSE updates
       /\ Put(t, <<DoneEvent(answer_text, c), Sentinel>>)
       /\ tasks' = [tasks EXCEPT ![t] =
                       TaskStatus("SUCCESS", [text |-> answer_text, conversation_id |-> c],
                                  NoFailure)]
    /\ locals' = [locals EXCEPT ![t].full_text = <<>>, ![t].nevents = 0]
    /\ pc' = [pc EXCEPT ![t] = "streaming_again"]
    /\ UNCHANGED <<streaming_tasks, agents, transcript_paths, has_repo, conversations,
                   request, constructed, raised, cpc, ctask, emitted>>
    /\ UNCHANGED <<repo_vars, engine_vars, client2_vars, loaded>>

\* The second stream is exhausted: lines 375-407, then the finally block.
\* Line 384 calls self.repo.update_message without testing self.repo.
stream_ends_again(t, final_output) ==
    /\ pc[t] = "streaming_again"
    /\ LET c == request[t].conversation
           message_id == update_target(t)
           answer_text == Or(_extract_answer_text_from_final(final_output),
                             locals[t].full_text)
           session == add_answer(agent_session[c], answer_text)
       IN
       /\ agent_session' = [agent_session EXCEPT ![c] = session]
       /\ conv_files' = [conv_files EXCEPT ![c] = save(session)]
       /\ IF ~has_repo
          THEN /\ Fail(t, locals[t].stream_queue, AttributeError)
               /\ UNCHANGED <<messages, updates>>
          ELSE /\ messages' = update_message(messages, message_id, answer_text,
                                             Summary(answer_text))
               /\ updates' = updates \cup {UpdateCall(t)}
               /\ Put(t, <<DoneEvent(answer_text, c), Sentinel>>)
               /\ tasks' = [tasks EXCEPT ![t] =
                               TaskStatus("SUCCESS",
                                          [text |-> answer_text, conversation_id |-> c],
                                          NoFailure)]
               /\ streaming_tasks' = finally(t)
               /\ pc' = [pc EXCEPT ![t] = "done"]
               /\ UNCHANGED raised
    /\ UNCHANGED <<agents, transcript_paths, has_repo, conversations, request, locals,
                   constructed, cpc, ctask, emitted>>
    /\ UNCHANGED <<repo_vars, engine_vars, client2_vars, loaded>>

\* ------------------------------------------------------ stream_task_response
\* One streaming client.  GET /transcript/task/{task_id}/stream, line 515:
\* 404 unless the queue is registered.
\* Mutant: the endpoint looks the id up in the task registry.
stream_available_in_tasks(t) == tasks[t] # NoTask

\* Mutant: the endpoint accepts every task that was created with streaming.
stream_available_if_created(t) == request[t].stream

stream_available(t) == t \in streaming_tasks

stream_task_response(t) ==
    /\ cpc = "idle"
    /\ cpc' = IF stream_available(t) THEN "accepted" ELSE "rejected"
    /\ ctask' = t
    /\ UNCHANGED <<tasks, streaming_tasks, queues, agents, agent_session, transcript_paths,
                   conv_files, has_repo, conversations, messages, pc, request, locals,
                   produced, constructed, updates, raised, emitted>>
    /\ UNCHANGED <<repo_vars, engine_vars, client2_vars, loaded>>

\* The response body starts: line 520 looks the queue up again (KeyError when
\* the task finished in between; the lookup is outside the try).
event_generator ==
    /\ cpc = "accepted"
    /\ cpc' = IF ctask \in streaming_tasks THEN "reading" ELSE "crashed"
    /\ UNCHANGED <<tasks, streaming_tasks, queues, agents, agent_session, transcript_paths,
                   conv_files, has_repo, conversations, messages, pc, request, locals,
                   produced, constructed, updates, raised, ctask, emitted>>
    /\ UNCHANGED <<repo_vars, engine_vars, client2_vars, loaded>>

\* None signals the end of the stream: the generator yields `end` and breaks.
\* Mutant: the read loop does not break on the sentinel.
after_get_no_break(event) == "reading"

after_get(event) == IF event = Sentinel THEN "closed" ELSE "reading"

\* queue.get() takes the item at the head off the queue.
\* Mutant: the item is read and stays on the queue.
dequeue_peek(q) == q

dequeue(q) == Tail(q)

\* One turn of the read loop, lines 523-533: queue.get() and the yield.
queue_get ==
    /\ cpc = "reading"
    /\ queues[ctask] # <<>>
    /\ LET event == Head(queues[ctask]) IN
       /\ queues' = [queues EXCEPT ![ctask] = dequeue(@)]
       /\ emitted' = Append(emitted, IF event = Sentinel THEN EndEvent ELSE event)
       /\ cpc' = after_get(event)
    /\ UNCHANGED <<tasks, streaming_tasks, agents, agent_session, transcript_paths,
                   conv_files, has_repo, conversations, messages, pc, request, locals,
                   produced, constructed, updates, raised, ctask>>
    /\ UNCHANGED <<repo_vars, engine_vars, client2_vars, loaded>>

\* ------------------------------------------------- a second streaming client
\* Another request to GET /transcript/task/{task_id}/stream runs the same
\* handler with its own generator; both generators hold the one queue of the
\* task.
stream_task_response_2(t) ==
    /\ cpc2 = "idle"
    /\ cpc2' = IF stream_available(t) THEN "accepted" ELSE "rejected"
    /\ ctask2' = t
    /\ UNCHANGED <<service_vars, has_repo, conversations, messages, client_vars, emitted2,
                   repo_vars, engine_vars, loaded>>

event_generator_2 ==
    /\ cpc2 = "accepted"
    /\ cpc2' = IF ctask2 \in streaming_tasks THEN "reading" ELSE "crashed"
    /\ UNCHANGED <<service_vars, has_repo, conversations, messages, client_vars, ctask2,
                   emitted2, repo_vars, engine_vars, loaded>>

queue_get_2 ==
    /\ cpc2 = "reading"
    /\ queues[ctask2] # <<>>
    /\ LET event == Head(queues[ctask2]) IN
       /\ queues' = [queues EXCEPT ![ctask2] = dequeue(@)]
       /\ emitted2' = Append(emitted2, IF event = Sentinel THEN EndEvent ELSE event)
       /\ cpc2' = after_get(event)
    /\ UNCHANGED <<tasks, streaming_tasks, agents, agent_session, transcript_paths,
                   conv_files, has_repo, conversations, messages, pc, request, locals,
                   produced, constructed, updates, raised, client_vars, ctask2>>
    /\ UNCHANGED <<repo_vars, engine_vars, loaded>>

\* What a client may submit as task t.  Message ids are interchangeable, so
\* the first task takes m1 and the second the same id or a fresh one; the
\* first task asks about c1 (which has no default transcript), the second
\* about the same conversation or about c2 (which has one).  The tasks
\* are processed in any order.
MsgIdsOf(t) == IF t = "t1" THEN {"m1"} ELSE MsgIds
ConvIdsOf(t) == IF t = "t1" THEN {"c1"} ELSE ConvIds
TaskIndex(t) == IF t = "t1" THEN 1 ELSE 2
StreamOf(t) == IF TaskIndex(t) <= MaxStreaming THEN BOOLEAN ELSE {FALSE}

Requests(t) ==
    {TaskRequest(c, m, PromptOf(m), path, s) :
        c \in ConvIdsOf(t), m \in MsgIdsOf(t), path \in Paths \cup {NoPath}, s \in StreamOf(t)}

Next ==
    \/ \E t \in TaskIds : \E req \in Requests(t) : create_task(t, req)
    \/ \E t \in TaskIds : process_task(t)
    \/ \E t \in TaskIds, result \in Results : run_returns(t, result)
    \/ \E t \in TaskIds : run_raises(t)
    \/ \E t \in TaskIds, delta \in Deltas : stream_delta(t, delta)
    \/ \E t \in TaskIds : stream_item(t)
    \/ \E t \in TaskIds : stream_raises(t)
    \/ \E t \in TaskIds, final_output \in FinalOutputs : stream_ends(t, final_output)
    \/ \E t \in TaskIds, final_output \in FinalOutputs : stream_ends_again(t, final_output)
    \/ \E t \in TaskIds : stream_task_response(t)
    \/ event_generator
    \/ queue_get

Spec == Init /\ [][Next]_vars

\* The event loop runs every coroutine that is ready, and every external call
\* (agent run, next stream event) eventually returns or raises.
TaskStep(t) ==
    \/ process_task(t)
    \/ \E result \in Results : run_returns(t, result)
    \/ run_raises(t)
    \/ \E delta \in Deltas : stream_delta(t, delta)
    \/ stream_item(t)
    \/ stream_raises(t)
    \/ \E final_output \in FinalOutputs : stream_ends(t, final_output)
    \/ \E final_output \in FinalOutputs : stream_ends_again(t, final_output)

ClientStep == event_generator \/ queue_get

FairSpec ==
    /\ Spec
    /\ \A t \in TaskIds : WF_vars(TaskStep(t))
    /\ WF_vars(ClientStep)

\* ============================================== one streaming task, read live
\* One task submitted with stream=true and the client of its stream; the
\* agent yields longer streams, of different fragments.
MaxDeltas == 3          \* stream events one agent run yields before it ends
StreamDeltas == {"a", "b"}

StreamRequests == {req \in Requests("t1") : req.stream}

StreamNext ==
    \/ \E req \in StreamRequests : create_task("t1", req)
    \/ process_task("t1")
    \/ \E delta \in StreamDeltas : stream_delta_within("t1", delta, MaxDeltas)
    \/ stream_item_within("t1", MaxDeltas)
    \/ stream_raises("t1")
    \/ \E final_output \in FinalOutputs : stream_ends("t1", final_output)
    \/ \E final_output \in FinalOutputs : stream_ends_again("t1", final_output)
    \/ stream_task_response("t1")
    \/ event_generator
    \/ queue_get

StreamSpec == Init /\ [][StreamNext]_vars

\* ============================================ one streaming task, two clients
\* One task submitted with stream=true, and two clients asking for its stream.
TwoClientNext ==
    \/ \E req \in StreamRequests : create_task("t1", req)
    \/ process_task("t1")
    \/ \E delta \in Deltas : stream_delta("t1", delta)
    \/ stream_item("t1")
    \/ stream_raises("t1")
    \/ \E final_output \in FinalOutputs : stream_ends("t1", final_output)
    \/ \E final_output \in FinalOutputs : stream_ends_again("t1", final_output)
    \/ stream_task_response("t1")
    \/ event_generator
    \/ queue_get
    \/ stream_task_response_2("t1")
    \/ event_generator_2
    \/ queue_get_2

TwoClientSpec == Init /\ [][TwoClientNext]_vars

\* ================================================ every shape of final output
\* One task, streaming or not, whose agent run ends with any of the final
\* outputs the extraction tells apart: None, a string (empty or not), an
\* object with a text_content attribute (empty or not), any other object;
\* and, for Runner.run, a result without the attribute final_output.
TextContentOutput(text) == [kind |-> "text_content", text |-> text]
ObjectOutput == [kind |-> "object", text |-> <<>>]
AllFinalOutputs ==
    {NoOutput, StrOutput(<<>>), StrOutput(<<"f">>),
     TextContentOutput(<<>>), TextContentOutput(<<"g">>), ObjectOutput}
AllResults ==
    {RunResult(final_output) : final_output \in AllFinalOutputs}
        \cup {ItemsResult(<<>>), ItemsResult(<<"i">>), MessagesResult(<<"m">>), BareResult}

ExtractNext ==
    \/ \E req \in Requests("t1") : create_task("t1", req)
    \/ process_task("t1")
    \/ \E result \in AllResults : run_returns("t1", result)
    \/ run_raises("t1")
    \/ \E delta \in Deltas : stream_delta("t1", delta)
    \/ stream_item("t1")
    \/ stream_raises("t1")
    \/ \E final_output \in AllFinalOutputs : stream_ends("t1", final_output)
    \/ \E final_output \in AllFinalOutputs : stream_ends_again("t1", final_output)

ExtractSpec == Init /\ [][ExtractNext]_vars

\* ===================================================== POST /transcript/load
\* The endpoint reads the file, records the path and writes a fresh session
\* record (no answers) holding the transcript; a file that does not open
\* raises 404 before anything is written.
load_transcript(c, transcript_path) ==
    /\ IF Readable(transcript_path)
       THEN /\ transcript_paths' = [transcript_paths EXCEPT ![c] = transcript_path]
            /\ conv_files' = [conv_files EXCEPT ![c] =
                   save([AgentSession(c, "") EXCEPT !.transcript = FileContent(transcript_path)])]
            /\ loaded' = [loaded EXCEPT ![c] =
                   [happened |-> TRUE, transcript |-> FileContent(transcript_path),
                    before |-> {t \in TaskIds : pc[t] # "new"}]]
       ELSE UNCHANGED <<transcript_paths, conv_files, loaded>>
    /\ UNCHANGED <<tasks, streaming_tasks, queues, agents, agent_session, has_repo,
                   conversations, messages, pc, request, locals, produced, constructed,
                   updates, raised, client_vars, repo_vars, engine_vars, client2_vars>>

\* Non-streaming tasks and reloads of the transcript; the transcript files
\* on offer include the empty one.
LoadPaths == {"p_ok", "p_empty"}

LoadRequests(t) ==
    {TaskRequest(c, m, PromptOf(m), path, FALSE) :
        c \in ConvIdsOf(t), m \in MsgIdsOf(t), path \in LoadPaths \cup {NoPath}}

LoadNext ==
    \/ \E t \in TaskIds : \E req \in LoadRequests(t) : create_task(t, req)
    \/ \E t \in TaskIds : process_task(t)
    \/ \E t \in TaskIds, result \in Results : run_returns(t, result)
    \/ \E t \in TaskIds : run_raises(t)
    \/ \E c \in ConvIds, path \in LoadPaths \cup Paths : load_transcript(c, path)

LoadSpec == Init /\ [][LoadNext]_vars

\* ================================================== the repository on its own
\* ConversationRepository driven directly by a caller: every method is one
\* synchronous sqlite transaction.  The connections never switch foreign-key
\* enforcement on, so the REFERENCES clauses of the schema are not checked.
MaxClock == 1           \* how far the clock advances
MaxArtifacts == 2       \* how many artifacts are ever inserted

DefaultLimit == 100
Titles == {NoText, <<"t">>}
Answers == {NoText, <<"a">>}
Summaries == {NoText, <<"s">>}
DataValues == {"None", "d"}
Limits == {1, DefaultLimit}

\* json.dumps(data) if data else None
data_json(data) == IF data = "None" THEN "NULL" ELSE "json:" \o data

Artifact(id, m, data) ==
    [id |-> id, message_uuid |-> m, artifact_type |-> "text", data |-> data_json(data),
     created_at |-> now]

MessagesOf(msgs, c) == {m \in MsgIds : msgs[m].exists /\ msgs[m].conversation_uuid = c}

\* get_message: the row with the artifacts selected by its uuid, or None.
None == [kind |-> "None"]

\* Mutant: the artifacts are selected without the WHERE clause.
get_message_unfiltered(m) ==
    IF messages[m].exists
    THEN [kind |-> "Message", uuid |-> m,
          conversation_uuid |-> messages[m].conversation_uuid,
          task_id |-> messages[m].task_id,
          prompt |-> messages[m].prompt,
          answer |-> messages[m].answer,
          summary |-> messages[m].summary,
          created_at |-> messages[m].created_at,
          artifacts |-> artifacts]
    ELSE None

get_message(m) ==
    IF messages[m].exists
    THEN [kind |-> "Message", uuid |-> m,
          conversation_uuid |-> messages[m].conversation_uuid,
          task_id |-> messages[m].task_id,
          prompt |-> messages[m].prompt,
          answer |-> messages[m].answer,
          summary |-> messages[m].summary,
          created_at |-> messages[m].created_at,
          artifacts |-> {a \in artifacts : a.message_uuid = m}]
    ELSE None

\* The uuid lists SELECT ... ORDER BY created_at ASC may produce (rows of one
\* timestamp come in either order).
Orderings(rows) ==
    {o \in [1..Cardinality(rows) -> rows] :
        /\ \A i, j \in DOMAIN o : i # j => o[i] # o[j]
        /\ \A i, j \in DOMAIN o : i < j => messages[o[i]].created_at <= messages[o[j]].created_at}

\* list_messages: every result the call may return.
list_messages(c, limit) ==
    {[i \in 1..Len(Take(o, limit)) |-> get_message(o[i])] : o \in Orderings(MessagesOf(messages, c))}

\* Mutant: delete_conversation deletes the messages before it selects the
\* artifacts by them, so no artifact is found.
delete_artifacts_after_messages(c) == artifacts

delete_artifacts(c) ==
    {a \in artifacts : a.message_uuid \notin MessagesOf(messages, c)}

delete_messages(c) ==
    [m \in MsgIds |-> IF m \in MessagesOf(messages, c) THEN NoMessage ELSE messages[m]]

service_and_client == <<service_vars, client_vars, has_repo, engine_vars, client2_vars, loaded>>

\* The histories forget the rows that are gone.
Forget(msgs, arts) ==
    /\ sent' = [m \in MsgIds |-> IF msgs[m].exists THEN sent[m] ELSE NoSent]
    /\ made' = [m \in MsgIds |-> {id \in made[m] : \E a \in arts : a.id = id}]

Repo_create_or_update_conversation(c, title) ==
    /\ conversations' = create_or_update_conversation(conversations, c, title)
    /\ UNCHANGED <<messages, repo_vars, service_and_client>>

\* create_message; a second INSERT of one uuid raises IntegrityError and the
\* connection closes without a commit.
Repo_create_message(m, c, prompt) ==
    /\ ~messages[m].exists
    /\ messages' = create_message(messages, m, c, NoId, prompt)
    /\ conversations' = bump_message_count(conversations, c)
    /\ sent' = [sent EXCEPT ![m] = [prompt |-> prompt, answer |-> NoText,
                                      summary |-> NoText, updates |-> 0]]
    /\ UNCHANGED <<artifacts, last_artifact_id, now, made, service_and_client>>

Repo_create_message_raises(m, c, prompt) ==
    /\ messages[m].exists
    /\ UNCHANGED vars

Repo_update_message(m, answer, summary) ==
    /\ messages[m].exists
    /\ messages' = update_message(messages, m, answer, summary)
    /\ sent' = [sent EXCEPT ![m].answer = answer, ![m].summary = summary,
                             ![m].updates = IF @ < 2 THEN @ + 1 ELSE @]
    /\ UNCHANGED <<conversations, artifacts, last_artifact_id, now, made, service_and_client>>

Repo_create_artifact(m, data) ==
    /\ last_artifact_id < MaxArtifacts
    /\ last_artifact_id' = last_artifact_id + 1
    /\ artifacts' = artifacts \cup {Artifact(last_artifact_id + 1, m, data)}
    /\ made' = [made EXCEPT ![m] = @ \cup {last_artifact_id + 1}]
    /\ UNCHANGED <<conversations, messages, now, sent, service_and_client>>

Repo_delete_conversation(c) ==
    /\ artifacts' = delete_artifacts(c)
    /\ messages' = delete_messages(c)
    /\ conversations' = [conversations EXCEPT ![c] = NoConversation]
    /\ Forget(messages', artifacts')
    /\ UNCHANGED <<last_artifact_id, now, service_and_client>>

Repo_delete_all ==
    /\ artifacts' = {}
    /\ messages' = [m \in MsgIds |-> NoMessage]
    /\ conversations' = [c \in ConvIds |-> NoConversation]
    /\ Forget(messages', artifacts')
    /\ UNCHANGED <<last_artifact_id, now, service_and_client>>

\* Time passes between two calls.
Tick ==
    /\ now < MaxClock
    /\ now' = now + 1
    /\ UNCHANGED <<conversations, messages, artifacts, last_artifact_id, sent, made,
                   service_and_client>>

RepoInit == Init /\ has_repo

\* The conversation table and its dependents: rows come and go.
RepoNext ==
    \/ \E c \in ConvIds, title \in Titles : Repo_create_or_update_conversation(c, title)
    \/ \E m \in MsgIds, c \in ConvIds : Repo_create_message(m, c, PromptOf(m))
    \/ \E m \in MsgIds, c \in ConvIds : Repo_create_message_raises(m, c, PromptOf(m))
    \/ \E m \in MsgIds, data \in DataValues : Repo_create_artifact(m, data)
    \/ \E c \in ConvIds : Repo_delete_conversation(c)
    \/ Repo_delete_all
    \/ Tick

RepoSpec == RepoInit /\ [][RepoNext]_vars

\* Messages written and read back.
RoundTripNext ==
    \/ \E m \in MsgIds, c \in ConvIds : Repo_create_message(m, c, PromptOf(m))
    \/ \E m \in MsgIds, answer \in Answers, summary \in Summaries :
            Repo_update_message(m, answer, summary)
    \/ \E m \in MsgIds, data \in DataValues : Repo_create_artifact(m, data)
    \/ \E c \in ConvIds : Repo_delete_conversation(c)
    \/ Tick

RoundTripSpec == RepoInit /\ [][RoundTripNext]_vars

\* ======================================================= content-hash cache
\* Uploaded audio is keyed by the digest of its bytes; the transcript of a
\* digest lives at one path.  An upload whose transcript file exists is
\* answered as cached; any other upload is answered at once and its
\* transcription runs later as a background job writing that path.
MaxUploads == 3         \* how many uploads are made

\* hashlib.md5(file_bytes).hexdigest(): a function of the bytes alone; two
\* different uploads may share a digest (B1 and B3 here).
\* Mutant: the digest also depends on when the upload is made.
calculate_file_hash_salted(file_bytes) ==
    IF Len(uploads) % 2 = 0 THEN "h1" ELSE "h2"

calculate_file_hash(file_bytes) ==
    IF file_bytes = "B2" THEN "h2" ELSE "h1"

upload(file_bytes) ==
    /\ Len(uploads) < MaxUploads
    /\ LET file_hash == calculate_file_hash(file_bytes)
           is_cached == hash_files[file_hash].exists
       IN
       /\ uploads' = Append(uploads, [bytes |-> file_bytes, file_hash |-> file_hash,
                                      is_cached |-> is_cached])
       /\ jobs' = IF is_cached THEN jobs
                  ELSE jobs \cup {[id |-> Len(uploads) + 1, audio_bytes |-> file_bytes,
                                   output_path |-> file_hash]}
    /\ UNCHANGED <<hash_files, transcribed, service_vars, client_vars, has_repo,
                   conversations, messages, repo_vars, client2_vars, loaded>>

\* process_audio_with_deepgram runs to its end: the transcript is written to
\* output_path, whatever is there.
process_audio_with_deepgram(job) ==
    /\ job \in jobs
    /\ jobs' = jobs \ {job}
    /\ transcribed' = [transcribed EXCEPT ![job.audio_bytes].invoked = @ + 1,
                                          ![job.audio_bytes].completed = @ + 1]
    /\ hash_files' = [hash_files EXCEPT ![job.output_path] =
                          [exists |-> TRUE, writes |-> @.writes + 1]]
    /\ UNCHANGED <<uploads, service_vars, client_vars, has_repo, conversations, messages,
                   repo_vars, client2_vars, loaded>>

\* The transcription request fails (response.raise_for_status()): no file.
process_audio_raises(job) ==
    /\ job \in jobs
    /\ jobs' = jobs \ {job}
    /\ transcribed' = [transcribed EXCEPT ![job.audio_bytes].invoked = @ + 1]
    /\ UNCHANGED <<hash_files, uploads, service_vars, client_vars, has_repo, conversations,
                   messages, repo_vars, client2_vars, loaded>>

EngineNext ==
    \/ \E file_bytes \in Bytes : upload(file_bytes)
    \/ \E job \in jobs : process_audio_with_deepgram(job)
    \/ \E job \in jobs : process_audio_raises(job)

EngineSpec == Init /\ [][EngineNext]_vars

\* ========================================================= read operations
HTTPException(status_code, detail) == [status_code |-> status_code, detail |-> detail]

\* TranscriptService.get_task_status: a read of self.tasks.
get_task_status(t) ==
    IF tasks[t] = NoTask THEN HTTPException(404, "Task not found") ELSE tasks[t]

Unavailable == HTTPException(503, "Metadata repository not available")

\* GET /conversations/list
list_conversations ==
    IF ~has_repo
    THEN Unavailable
    ELSE [status_code |-> 200,
          conversations |-> {c \in ConvIds : conversations[c].exists}]

\* GET /conversations/{conversation_uuid}/messages: the answers it may give.
get_conversation_messages(c, limit) ==
    IF ~has_repo
    THEN {Unavailable}
    ELSE {[status_code |-> 200, messages |-> l] : l \in list_messages(c, limit)}

\* ================================================================== claims
IsTerminal(task) == task.status \in {"SUCCESS", "FAILED"}
IsTerminalEvent(item) == item.type \in {"done", "error"}
Positions(seq, P(_)) == {i \in 1..Len(seq) : P(seq[i])}
IsSentinel(item) == item = Sentinel
IsEnd(item) == item = EndEvent

\* C1: once a task's registry entry is SUCCESS or FAILED, no later step of the
\* task processor changes its status, result or failure.
C1_TerminalStateIsFinal ==
    [][\A t \in TaskIds : IsTerminal(tasks[t]) => tasks'[t] = tasks[t]]_vars

\* C2: when a streaming task has finished, the items it put on its queue hold
\* exactly one terminal event and exactly one sentinel, the sentinel last and
\* the terminal event immediately before it.
C2_OneTerminalThenSentinel ==
    \A t \in TaskIds :
        (pc[t] = "done" /\ request[t].stream) =>
            LET n == Len(produced[t]) IN
            /\ Positions(produced[t], IsSentinel) = {n}
            /\ Positions(produced[t], IsTerminalEvent) = {n - 1}

\* C3: what the streaming client has been sent holds at most one terminal
\* event and at most one `end`; `end` is the last thing sent, stands
\* immediately after the terminal event, and is sent exactly when the read
\* loop has stopped; a terminal event is followed by nothing but `end`.
C3_ConsumerEndsWithTerminalThenEnd ==
    LET n == Len(emitted)
        terms == Positions(emitted, IsTerminalEvent)
        ends == Positions(emitted, IsEnd)
    IN
    /\ Cardinality(terms) <= 1
    /\ Cardinality(ends) <= 1
    /\ \A i \in ends : i = n /\ (i - 1) \in terms
    /\ \A i \in terms : i >= n - 1 /\ (i = n - 1 => n \in ends)
    /\ (cpc = "closed") <=> (ends # {})
    /\ cpc \notin {"reading", "closed"} => emitted = <<>>

\* C3 witness: the client was sent `done` and `end` and stopped, while the
\* producer went on to put further items on the queue.
C3_Witness ==
    /\ cpc = "closed"
    /\ Len(emitted) >= 2
    /\ emitted[Len(emitted) - 1].type = "done"
    /\ queues[ctask] # <<>>

\* C4: when a step of a task raised an exception with message e, the task is
\* over with status FAILED and failure e, and if it streams, the last two
\* items put on its queue are the error event carrying e and the sentinel.
C4_ExceptionBecomesFailed ==
    \A t \in TaskIds :
        raised[t] # NoFailure =>
            /\ pc[t] = "done"
            /\ tasks[t].status = "FAILED"
            /\ tasks[t].failure = raised[t]
            /\ request[t].stream =>
                 LET n == Len(produced[t]) IN
                 /\ n >= 2
                 /\ produced[t][n - 1] = ErrorEvent(raised[t])
                 /\ produced[t][n] = Sentinel

\* C4 witness: a streaming task whose agent run raised after it had already
\* put an event on the queue.
C4_Witness ==
    \E t \in TaskIds :
        /\ raised[t] = AgentError
        /\ request[t].stream
        /\ Len(produced[t]) >= 3

\* C5: every task recorded as STARTED eventually is SUCCESS or FAILED.
C5_TaskLeavesStarted ==
    \A t \in TaskIds : (tasks[t].status = "STARTED") ~> IsTerminal(tasks[t])

\* C5 witness: a task failed inside the processor and reached FAILED while
\* another reached SUCCESS.
C5_Witness ==
    \E t, u \in TaskIds :
        /\ raised[t] # NoFailure
        /\ tasks[t].status = "FAILED"
        /\ tasks[u].status = "SUCCESS"

\* C6: a client whose event_generator holds the task's queue eventually reads
\* the sentinel, sends `end` and stops.
C6_ReadLoopTerminates ==
    (cpc = "reading") ~>
        (cpc = "closed" /\ emitted # <<>> /\ emitted[Len(emitted)] = EndEvent)

\* C6 witness: the read loop stopped after a failed task's error event.
C6_Witness ==
    /\ cpc = "closed"
    /\ Len(emitted) >= 3
    /\ emitted[Len(emitted) - 1].type = "error"

\* C7: a queue registered for a streaming task eventually leaves the registry.
C7_QueueEventuallyRemoved ==
    \A t \in TaskIds : (t \in streaming_tasks) ~> (t \notin streaming_tasks)

\* C7 witness: a streaming task is over, its queue gone from the registry,
\* and no client ever asked for its stream.
C7_Witness ==
    \E t \in TaskIds :
        /\ request[t].stream
        /\ pc[t] = "done"
        /\ t \notin streaming_tasks
        /\ cpc = "idle"

\* C8: a task that create_task has returned and whose processing has not yet
\* taken a step is recorded as STARTED, and if it was submitted with
\* stream=true its (empty) queue is registered; nothing of the processing
\* (no local, no agent, no queue item) exists yet.
C8_CreatedBeforeProcessing ==
    \A t \in TaskIds :
        /\ pc[t] = "scheduled" =>
             /\ tasks[t] = TaskStatus("STARTED", NoResult, NoFailure)
             /\ request[t].stream => (t \in streaming_tasks /\ produced[t] = <<>>)
             /\ locals[t] = NoLocals
        /\ pc[t] # "new" => tasks[t].status # "NONE"
        /\ t \in streaming_tasks => request[t].stream

C8_Witness ==
    \E t \in TaskIds :
        /\ pc[t] = "scheduled"
        /\ request[t].stream
        /\ \E u \in TaskIds : pc[u] \in {"running", "done"}

\* C9: per conversation at most one agent is ever constructed; the agents map
\* holds exactly that one from its construction on; every task that resolved
\* its session uses it.
C9_OneAgentPerConversation ==
    /\ \A c \in ConvIds :
        /\ Len(constructed[c]) <= 1
        /\ (constructed[c] = <<>>) <=> (agents[c] = NoAgent)
        /\ constructed[c] # <<>> => agents[c].by = constructed[c][1]
    /\ \A t \in TaskIds :
        locals[t].agent # NoAgent => locals[t].agent = agents[request[t].conversation]

\* C9 witness: two tasks of one conversation are in flight at once, the
\* second running on the agent the first constructed.
C9_Witness ==
    \E t, u \in TaskIds :
        /\ t # u
        /\ request[t].conversation = request[u].conversation
        /\ pc[t] \in {"running", "streaming"}
        /\ pc[u] \in {"running", "streaming"}
        /\ locals[u].agent.by = t

\* C10: every update_message call a task makes names the message uuid of the
\* task's own request.
C10_AnswerToOwnMessage ==
    \A u \in updates : u.message_uuid = request[u.task].message

\* C10 witness: a task wrote its answer after another task of the same
\* conversation had overwritten message_id in the shared session record.
C10_Witness ==
    \E u \in updates :
        /\ u.session_message_id # u.message_uuid
        /\ messages[u.message_uuid].answer # NoText
        /\ messages[u.message_uuid].task_id = u.task

\* Task t has no transcript to start from; the step that resolves t's session.
NoTranscriptAnywhere(t) ==
    LET c == request[t].conversation IN
    /\ request[t].transcript_path = NoPath
    /\ transcript_paths[c] = NoPath
    /\ ~conv_files[c].exists
    /\ ~Readable(DefaultPath(c))

Resolves(t) == pc[t] = "scheduled" /\ pc'[t] # "scheduled"

\* C11 (as claimed): the step that resolves the session of a streaming task
\* whose conversation has no stored transcript, no recorded transcript path
\* and no default transcript file does not fail with not-found; it leaves an
\* agent seeded with the empty transcript and the task running.
C11_MissingTranscriptSeedsEmpty ==
    [][\A t \in TaskIds :
        (Resolves(t) /\ request[t].stream /\ NoTranscriptAnywhere(t)) =>
            LET c == request[t].conversation IN
            /\ tasks'[t].status # "FAILED"
            /\ pc'[t] = "streaming"
            /\ agents'[c] # NoAgent
            /\ agents'[c].transcript = ""]_vars

\* C11 (amended): that step ends the task: FAILED with the not-found error of
\* the default path, the error event and the sentinel on its queue, the queue
\* out of the registry, and no agent created for the conversation.
C11_MissingTranscriptFails ==
    [][\A t \in TaskIds :
        (Resolves(t) /\ request[t].stream /\ NoTranscriptAnywhere(t)) =>
            LET c == request[t].conversation
                e == NotFoundError(DefaultPath(c))
            IN
            /\ pc'[t] = "done"
            /\ tasks'[t] = TaskStatus("FAILED", NoResult, e)
            /\ produced'[t] = <<ErrorEvent(e), Sentinel>>
            /\ t \notin streaming_tasks'
            /\ agents'[c] = NoAgent]_vars

\* C11 witness: a streaming task of that kind was processed, and the client
\* read its error event.
C11_Witness ==
    \E t \in TaskIds :
        /\ request[t].stream
        /\ pc[t] = "done"
        /\ NoTranscriptAnywhere(t)
        /\ ctask = t
        /\ cpc = "closed"

\* C12: for every conversation row, message_count is the number of message
\* rows whose conversation_uuid is that conversation's uuid.
C12_MessageCountMatches ==
    \A c \in ConvIds :
        conversations[c].exists =>
            conversations[c].message_count = Cardinality(MessagesOf(messages, c))

\* C13: a message row appears with its prompt set and its answer null; no
\* step removes a message row; once a row's answer is written no step
\* writes a different answer or summary to it.
C13_AnswerWrittenOnce ==
    [][\A m \in MsgIds :
        /\ (~messages[m].exists /\ messages'[m].exists) =>
              /\ messages'[m].prompt # NoText
              /\ messages'[m].answer = NoText
        /\ messages[m].exists => messages'[m].exists
        /\ (messages[m].exists /\ messages[m].answer # NoText) =>
              /\ messages'[m].answer = messages[m].answer
              /\ messages'[m].summary = messages[m].summary]_vars

\* C14: a step that leaves a conversation's persisted transcript empty where
\* it was not empty before is a reload of that conversation's transcript
\* through POST /transcript/load.
C14_TranscriptNotBlanked ==
    [][\A c \in ConvIds :
        (conv_files[c].transcript # "" /\ conv_files'[c].transcript = "") =>
            \E path \in LoadPaths \cup Paths : load_transcript(c, path)]_vars

\* C15: without a repository the repository endpoints answer 503, and every
\* task that is over and whose transcript was found and whose agent runs did
\* not raise is SUCCESS.
C15_DegradesWithoutRepository ==
    ~has_repo =>
        /\ list_conversations = Unavailable
        /\ \A c \in ConvIds, limit \in Limits :
              get_conversation_messages(c, limit) = {Unavailable}
        /\ \A t \in TaskIds :
              (pc[t] = "done" /\ raised[t] \in {NoFailure, AttributeError}) =>
                  tasks[t].status = "SUCCESS"

\* A step that answers an upload.
Uploading == Len(uploads') = Len(uploads) + 1

C17_DeleteCascadesAndFrames ==
    [][\A c \in ConvIds :
        Repo_delete_conversation(c) =>
            LET gone == MessagesOf(messages, c) IN
            /\ ~conversations'[c].exists
            /\ MessagesOf(messages', c) = {}
            /\ \A a \in artifacts' : a.message_uuid \notin gone
            /\ \A d \in ConvIds \ {c} : conversations'[d] = conversations[d]
            /\ \A m \in MsgIds \ gone : messages'[m] = messages[m]
            /\ \A a \in artifacts : a.message_uuid \notin gone => a \in artifacts'
            /\ artifacts' \subseteq artifacts]_vars

\* C17 witness: two artifacts were inserted and one is gone with its message
\* and conversation, while another conversation still has its row, a message
\* and that message's artifact.
C17_Witness ==
    \E c, d \in ConvIds :
        /\ c # d
        /\ ~conversations[c].exists
        /\ MessagesOf(messages, c) = {}
        /\ conversations[d].exists
        /\ conversations[d].message_count = 1
        /\ last_artifact_id = 2
        /\ Cardinality(artifacts) = 1
        /\ \A a \in artifacts : a.message_uuid \in MessagesOf(messages, d)

\* Message m was created and updated at most once since; r is m as it was written.
RoundTripped(m) == messages[m].exists /\ sent[m].updates <= 1

Matches(r, m) ==
    /\ r.kind = "Message"
    /\ r.uuid = m
    /\ r.prompt = sent[m].prompt
    /\ r.answer = sent[m].answer
    /\ r.summary = sent[m].summary
    /\ {a.id : a \in r.artifacts} = made[m]
    /\ \A a \in r.artifacts : a.message_uuid = m

Min(a, b) == IF a <= b THEN a ELSE b

\* C18 (as claimed): a message that was created and then updated at most once
\* is returned by get_message and by every list_messages call for its
\* conversation with the prompt, answer and summary that were passed in and
\* with exactly the artifacts created for it.
C18_RoundTrip ==
    \A m \in MsgIds :
        RoundTripped(m) =>
            /\ Matches(get_message(m), m)
            /\ \A limit \in Limits :
                 \A l \in list_messages(messages[m].conversation_uuid, limit) :
                    \E i \in DOMAIN l : Matches(l[i], m)

\* C18 (amended): get_message returns it so; list_messages returns the first
\* `limit` messages of the conversation in creation order, each as
\* get_message returns it, hence the message itself whenever the
\* conversation holds at most `limit` messages.
C18_RoundTripWithinLimit ==
    \A m \in MsgIds :
        RoundTripped(m) =>
            LET c == messages[m].conversation_uuid
                n == Cardinality(MessagesOf(messages, c))
            IN
            /\ Matches(get_message(m), m)
            /\ \A limit \in Limits :
                 \A l \in list_messages(c, limit) :
                    /\ Len(l) = Min(limit, n)
                    /\ \A i \in DOMAIN l :
                         /\ l[i].kind = "Message"
                         /\ l[i].conversation_uuid = c
                         /\ l[i] = get_message(l[i].uuid)
                         /\ \A j \in DOMAIN l :
                              i < j => l[i].created_at <= l[j].created_at /\ l[i].uuid # l[j].uuid
                    /\ n <= limit => \E i \in DOMAIN l : Matches(l[i], m)

\* C18 witness: two messages of one conversation, each with an artifact of
\* its own, one of them updated once with an answer and a summary.
C18_Witness ==
    \E m, k \in MsgIds :
        /\ m # k
        /\ RoundTripped(m) /\ RoundTripped(k)
        /\ messages[m].conversation_uuid = messages[k].conversation_uuid
        /\ sent[m].updates = 1
        /\ sent[m].answer # NoText /\ sent[m].summary # NoText
        /\ made[m] # {} /\ made[k] # {}
        /\ messages[m].created_at < messages[k].created_at

\* A step that inserts message m for conversation c.
Appended(m, c) ==
    /\ ~messages[m].exists
    /\ messages'[m].exists
    /\ messages'[m].conversation_uuid = c

\* C19: a conversation row's updated_at never decreases and never lies in the
\* future, a row that appears carries the current time, and a message
\* inserted for a conversation that has a row sets the row's updated_at to
\* the time of the insert.
C19_UpdatedAtMonotone ==
    [][\A c \in ConvIds :
        /\ (conversations[c].exists /\ conversations'[c].exists) =>
              conversations'[c].updated_at >= conversations[c].updated_at
        /\ conversations'[c].exists =>
              /\ conversations'[c].updated_at <= now'
              /\ conversations'[c].created_at <= conversations'[c].updated_at
        /\ (~conversations[c].exists /\ conversations'[c].exists) =>
              conversations'[c].updated_at = now
        /\ \A m \in MsgIds :
              (Appended(m, c) /\ conversations[c].exists) =>
                  /\ conversations'[c].exists
                  /\ conversations'[c].updated_at = now
                  /\ messages'[m].created_at = now]_vars

\* C19 witness: a conversation created at one time holds a message appended
\* at a later time, and its updated_at is the time of that append.
C19_Witness ==
    \E c \in ConvIds, m \in MsgIds :
        /\ conversations[c].exists
        /\ messages[m].exists /\ messages[m].conversation_uuid = c
        /\ conversations[c].created_at < messages[m].created_at
        /\ conversations[c].updated_at = messages[m].created_at
        /\ conversations[c].message_count = 1

\* C20: get_task_status answers NotFound (404) exactly for the task ids that
\* create_task has not returned, and for every id it has returned it answers
\* the recorded status, which is STARTED, SUCCESS or FAILED.
C20_StatusOfKnownTasksOnly ==
    \A t \in TaskIds :
        /\ pc[t] = "new" => get_task_status(t) = HTTPException(404, "Task not found")
        /\ pc[t] # "new" =>
              /\ get_task_status(t) = tasks[t]
              /\ tasks[t].status \in {"STARTED", "SUCCESS", "FAILED"}

\* C20 witness: one task has failed and its status reads FAILED with the
\* failure text, while the other id has not been handed out and reads 404.
C20_Witness ==
    \E t, u \in TaskIds :
        /\ pc[t] = "done"
        /\ get_task_status(t).status = "FAILED"
        /\ get_task_status(t).failure = raised[t]
        /\ pc[u] = "new"
        /\ get_task_status(u).status_code = 404

\* A step in which the client asks for the stream of task t.
AsksStream(t) == cpc = "idle" /\ cpc' # "idle" /\ ctask' = t

\* C21: a stream request for a task id that was submitted without streaming
\* or was never handed out is rejected (404); the request registers no queue,
\* puts nothing on a queue and sends nothing, and a rejected client never
\* enters the read loop.
C21_NonStreamingRejected ==
    [][/\ \A t \in TaskIds :
            (AsksStream(t) /\ ~request[t].stream) =>
                /\ cpc' = "rejected"
                /\ streaming_tasks' = streaming_tasks
                /\ t \notin streaming_tasks'
                /\ queues' = queues
                /\ emitted' = emitted
       /\ cpc = "rejected" => (cpc' = "rejected" /\ emitted' = <<>>)]_vars

\* C21 witness: the client asked for the stream of a task that was submitted
\* without streaming and is still running, and was rejected.
C21_Witness ==
    /\ cpc = "rejected"
    /\ pc[ctask] = "running"
    /\ ~request[ctask].stream
    /\ emitted = <<>>

\* C22: once a task's status is FAILED its coroutine is over: no later step
\* changes the task's registry entry, puts an item on its queue, or moves
\* the task (no agent run is started for it, its locals stay as they are).
C22_FailedNeverRetried ==
    [][\A t \in TaskIds :
        tasks[t].status = "FAILED" =>
            /\ tasks'[t] = tasks[t]
            /\ produced'[t] = produced[t]
            /\ pc[t] = "done" /\ pc'[t] = "done"
            /\ locals'[t] = locals[t]]_vars

\* C22 witness: a task failed in its agent run, and afterwards another task
\* of the same conversation ran to SUCCESS on the agent the failed task had
\* constructed.
C22_Witness ==
    \E t, u \in TaskIds :
        /\ tasks[t].status = "FAILED"
        /\ raised[t] = AgentError
        /\ tasks[u].status = "SUCCESS"
        /\ request[t].conversation = request[u].conversation
        /\ locals[u].agent.by = t

Range(seq) == {seq[i] : i \in DOMAIN seq}

\* A step that sets task t to SUCCESS.
Succeeds(t) == tasks[t].status # "SUCCESS" /\ tasks'[t].status = "SUCCESS"

IsDone(item) == item.type = "done"

\* C24: whenever a streaming task is SUCCESS, its answer is persisted, a
\* `done` event and the sentinel have been put on its queue, every `done`
\* event was put before every sentinel, and the text of every `done` event
\* is the text of the task's result.
C24_DoneThenSentinelThenSuccess ==
    \A t \in TaskIds :
        (request[t].stream /\ tasks[t].status = "SUCCESS") =>
            LET dones == Positions(produced[t], IsDone)
                sentinels == Positions(produced[t], IsSentinel)
            IN
            /\ tasks[t].result.text \in Range(conv_files[request[t].conversation].answers)
            /\ dones # {}
            /\ sentinels # {}
            /\ \A i \in dones, j \in sentinels : i < j
            /\ \A i \in dones : produced[t][i].text = tasks[t].result.text

IsDelta(item) == item.type = "delta"

\* What the client is sent for an item taken off the queue.
SentFor(item) == IF item = Sentinel THEN EndEvent ELSE item

\* C25: what the client of a streaming task has received is, item by item,
\* the beginning of what the task put on its queue, and the `accumulated`
\* field of the k-th `delta` event received is the sequence of the `delta`
\* fragments of the first k `delta` events received.
C25_FifoAndAccumulated ==
    LET deltas == SelectSeq(emitted, IsDelta) IN
    /\ ctask = NoId => emitted = <<>>
    /\ ctask # NoId =>
          /\ Len(emitted) <= Len(produced[ctask])
          /\ \A i \in DOMAIN emitted : emitted[i] = SentFor(produced[ctask][i])
          /\ queues[ctask] # <<>> =>
                queues[ctask] = SubSeq(produced[ctask], Len(produced[ctask]) - Len(queues[ctask]) + 1,
                                       Len(produced[ctask]))
    /\ \A k \in DOMAIN deltas :
          deltas[k].accumulated = [i \in 1..k |-> deltas[i].delta]

\* C25 witness: the client received two different fragments with an item
\* event between them, then `done` and `end`, while the task went on to put
\* the events of its second run on the queue.
C25_Witness ==
    /\ cpc = "closed"
    /\ Len(emitted) = 5
    /\ emitted[1].type = "delta"
    /\ emitted[2].type = "event"
    /\ emitted[3].type = "delta"
    /\ emitted[1].delta # emitted[3].delta
    /\ emitted[4].type = "done"
    /\ \E i \in DOMAIN queues[ctask] : queues[ctask][i].type = "delta"

\* A step in which an agent run of task t ends with final_output and the
\* task's answer is taken from it.
Answers_with(t, final_output) ==
    \/ run_returns(t, RunResult(final_output))
    \/ stream_ends(t, final_output)
    \/ stream_ends_again(t, final_output) /\ has_repo

\* C26: when the run ends with a final output that is not None, the task's
\* answer text (its result text and the answer appended to the session) is
\* the final output itself if it is a string, else its text_content if it
\* has one, else its string form, whatever fragments were streamed.
C26_AnswerFromFinalOutput ==
    [][\A t \in TaskIds, final_output \in AllFinalOutputs \ {NoOutput} :
        Answers_with(t, final_output) =>
            LET answer == CASE final_output.kind = "str" -> final_output.text
                            [] final_output.kind = "text_content" -> final_output.text
                            [] OTHER -> Str(final_output)
                answers == agent_session'[request[t].conversation].answers
            IN
            /\ tasks'[t].result.text = answer
            /\ answers[Len(answers)] = answer]_vars

\* A step in which an agent run of task t ends without a final output.
Answers_without(t) ==
    \/ Answers_with(t, NoOutput)
    \/ \E result \in AllResults : result.kind # "final_output" /\ run_returns(t, result)

\* C27: when the run ends with no final output, the task's answer text is
\* the text accumulated from the streamed fragments, and when nothing was
\* accumulated it is the string form of the whole run result.
C27_AnswerFromFragments ==
    [][\A t \in TaskIds :
        Answers_without(t) =>
            tasks'[t].result.text =
                IF locals[t].full_text # <<>> THEN locals[t].full_text ELSE StrOfResult]_vars

\* The transcript persisted for conversation c ("" when nothing is persisted).
StoredTranscript(c) == IF conv_files[c].exists THEN conv_files[c].transcript ELSE ""

\* The file the precedence names for task t: the path of the request, else
\* the path recorded for the conversation, else the default path.
ChosenPath(t) ==
    LET c == request[t].conversation IN
    IF request[t].transcript_path # NoPath THEN request[t].transcript_path
    ELSE IF transcript_paths[c] # NoPath THEN transcript_paths[c]
    ELSE DefaultPath(c)

\* C28: the step that resolves the session of a task whose conversation has
\* no cached agent seeds the new agent with the persisted transcript if that
\* is not empty, and otherwise with the content of the file at the request's
\* path, else at the recorded path, else at the default path (the task fails
\* with not-found when that file does not open); a non-empty persisted
\* transcript is left as it is, and a cached agent is used as it is, its
\* transcript and the persisted one untouched, whatever path the request names.
C28_TranscriptPrecedence ==
    [][\A t \in TaskIds :
        Resolves(t) =>
            LET c == request[t].conversation IN
            /\ agents[c] # NoAgent =>
                  /\ agents'[c] = agents[c]
                  /\ locals'[t].agent = agents[c]
                  /\ agent_session'[c].transcript = agent_session[c].transcript
                  /\ conv_files'[c] = conv_files[c]
            /\ (agents[c] = NoAgent /\ StoredTranscript(c) # "") =>
                  /\ agents'[c] = create_agent(t, StoredTranscript(c))
                  /\ agent_session'[c].transcript = StoredTranscript(c)
                  /\ conv_files'[c] = conv_files[c]
            /\ (agents[c] = NoAgent /\ StoredTranscript(c) = "" /\ Readable(ChosenPath(t))) =>
                  /\ agents'[c] = create_agent(t, FileContent(ChosenPath(t)))
                  /\ agent_session'[c].transcript = FileContent(ChosenPath(t))
                  /\ conv_files'[c].exists
                  /\ conv_files'[c].transcript = FileContent(ChosenPath(t))
            /\ (agents[c] = NoAgent /\ StoredTranscript(c) = "" /\ ~Readable(ChosenPath(t))) =>
                  /\ agents'[c] = NoAgent
                  /\ tasks'[t] = TaskStatus("FAILED", NoResult, NotFoundError(ChosenPath(t)))
                  /\ conv_files'[c] = conv_files[c]]_vars

\* C28 witness: one agent was seeded from the path of its task's request
\* although the conversation has a default transcript, and another from the
\* persisted transcript of a reload, with no path in its task's request.
C28_Witness ==
    \E t, u \in TaskIds :
        /\ t # u
        /\ agents["c2"].by = u
        /\ request[u].transcript_path = "p_ok"
        /\ agents["c2"].transcript = FileContent("p_ok")
        /\ FileContent("p_ok") # FileContent(DefaultPath("c2"))
        /\ agents["c1"].by = t
        /\ request[t].transcript_path = NoPath
        /\ transcript_paths["c1"] = "p_ok"
        /\ agents["c1"].transcript = FileContent("p_ok")

\* C29: the title of a conversation row is derived from the prompt of the
\* task that creates the row, and no later task of the conversation changes
\* the title stored in the row.
C29_TitleFromFirstMessageOnly ==
    [][\A c \in ConvIds :
        /\ (~conversations[c].exists /\ conversations'[c].exists) =>
              \E t \in TaskIds :
                  /\ Resolves(t)
                  /\ request[t].conversation = c
                  /\ conversations'[c].title = Title(request[t].prompt)
        /\ (conversations[c].exists /\ conversations'[c].exists) =>
              conversations'[c].title = conversations[c].title]_vars

TasksOf(c) == {t \in TaskIds : pc[t] # "new" /\ request[t].conversation = c}
Count(seq, x) == Cardinality({i \in DOMAIN seq : seq[i] = x})

\* C30: when every task submitted for a conversation is over, the answers of
\* the conversation's session are, counted with multiplicity, the result
\* texts of its tasks that ended SUCCESS: one entry for each such task and
\* no other entry.
C30_OneAnswerPerSuccess ==
    \A c \in ConvIds :
        (TasksOf(c) # {} /\ \A t \in TasksOf(c) : pc[t] = "done") =>
            LET answers == agent_session[c].answers
                succeeded == {t \in TasksOf(c) : tasks[t].status = "SUCCESS"}
            IN
            /\ Len(answers) = Cardinality(succeeded)
            /\ \A t \in succeeded :
                  Count(answers, tasks[t].result.text) =
                      Cardinality({u \in succeeded : tasks[u].result.text = tasks[t].result.text})

\* C31: for every conversation with a cached session record, the persisted
\* file of the conversation holds the transcript and the answers of that
\* record.
C31_FileEqualsCachedSession ==
    \A c \in ConvIds :
        agents[c] # NoAgent =>
            /\ conv_files[c].exists
            /\ conv_files[c].transcript = agent_session[c].transcript
            /\ conv_files[c].answers = agent_session[c].answers


\* C32: every message row names an existing conversation row, and every
\* artifact row names an existing message row.
C32_ReferentialIntegrity ==
    /\ \A m \in MsgIds :
            messages[m].exists => conversations[messages[m].conversation_uuid].exists
    /\ \A a \in artifacts : messages[a.message_uuid].exists

\* Both tasks of one conversation have been past session resolution together,
\* u having found the agent that t cached, and u finished first.
Overlapped(t, u) ==
    /\ t # u
    /\ pc[t] # "new"
    /\ request[t].conversation = request[u].conversation
    /\ agents[request[t].conversation].by = t
    /\ pc[u] = "done"

\* C33: when a task succeeds while another task of the same conversation has
\* succeeded before it, the in-memory answers end with the answer of the later
\* task, hold the answer of the earlier task before it, and the persisted
\* file holds the same list.
C33_NoLostUpdate ==
    [][\A t, u \in TaskIds :
          (/\ t # u
           /\ request[t].conversation = request[u].conversation
           /\ tasks[u].status = "SUCCESS"
           /\ Succeeds(t)) =>
              LET c == request[t].conversation
                  answers == agent_session'[c].answers
              IN
              /\ conv_files'[c].answers = answers
              /\ answers # <<>>
              /\ answers[Len(answers)] = tasks'[t].result.text
              /\ \E i \in 1..(Len(answers) - 1) : answers[i] = tasks[u].result.text]_vars

C33_Witness ==
    \E t, u \in TaskIds :
        /\ Overlapped(t, u)
        /\ ~request[t].stream /\ ~request[u].stream
        /\ tasks[t].status = "SUCCESS" /\ tasks[u].status = "SUCCESS"
        /\ tasks[t].result.text # tasks[u].result.text
        /\ agent_session[request[t].conversation].answers =
                <<tasks[u].result.text, tasks[t].result.text>>
        /\ conv_files[request[t].conversation].answers =
                <<tasks[u].result.text, tasks[t].result.text>>

\* C34: a task whose status is FAILED has left no answer: the message row it
\* created has a null answer, and when every other task of its conversation
\* has failed too or has not begun, the answers of the conversation are empty
\* in memory and in the file.
C34_FailedHasNoAnswer ==
    \A t \in TaskIds :
        tasks[t].status = "FAILED" =>
            LET c == request[t].conversation IN
            /\ \A m \in MsgIds :
                  (messages[m].exists /\ messages[m].task_id = t) =>
                      messages[m].answer = NoText
            /\ (\A u \in TasksOf(c) \ {t} :
                    pc[u] = "scheduled" \/ tasks[u].status = "FAILED") =>
                  /\ agent_session[c].answers = <<>>
                  /\ conv_files[c].answers = <<>>

\* The stream request for task t is answered in this step.
Answered(t) == cpc = "idle" /\ cpc' # "idle" /\ ctask' = t

\* C35: a stream request is accepted only for a task whose queue is
\* registered; a task whose processing is over has no registered queue, a
\* request for it is rejected, and after the rejection nothing is read from
\* its queue.
C35_RejectedAfterFinished ==
    [][/\ \A t \in TaskIds :
            /\ pc[t] = "done" => t \notin streaming_tasks
            /\ Answered(t) =>
                  /\ cpc' = "accepted" => t \in streaming_tasks
                  /\ pc[t] = "done" => cpc' = "rejected"
       /\ (cpc = "rejected" /\ pc[ctask] = "done") =>
              /\ cpc' = "rejected"
              /\ emitted' = emitted
              /\ queues'[ctask] = queues[ctask]]_vars

C35_Witness ==
    /\ cpc = "rejected"
    /\ request[ctask].stream
    /\ pc[ctask] = "done"
    /\ tasks[ctask].status = "SUCCESS"
    /\ \E i \in DOMAIN queues[ctask] : IsDone(queues[ctask][i])
    /\ emitted = <<>>

\* The step that resolves the session of task t, for a conversation without
\* cached agent, ends with an exception raised before the agent is made.
FailsResolving(t) ==
    /\ Resolves(t)
    /\ agents[request[t].conversation] = NoAgent
    /\ raised'[t] \notin {NoFailure, IntegrityError}

Reloads(c) == pc' = pc /\ conv_files'[c] # conv_files[c]

\* C38: a transcript load for a conversation leaves the answers persisted in
\* the file of the conversation as they were.
C38_LoadKeepsAnswers ==
    [][\A c \in ConvIds : Reloads(c) => conv_files'[c].answers = conv_files[c].answers]_vars

\* Task t of conversation c was created after the last transcript load for c,
\* which stored a transcript that is not empty, and takes a step of its
\* processing.
LaterTaskStep(t, c) ==
    /\ loaded[c].happened
    /\ loaded[c].transcript # ""
    /\ t \notin loaded[c].before
    /\ pc[t] # "new"
    /\ request[t].conversation = c
    /\ pc'[t] # pc[t]

\* C39: through every processing step of a task created after the last
\* transcript load for its conversation (of a transcript that is not empty),
\* the persisted transcript of the conversation is the loaded one, and when such a task ends SUCCESS the
\* agent that answered it was seeded with the loaded transcript.
C39_ReloadedTranscriptUsed ==
    [][\A c \in ConvIds, t \in TaskIds :
        LaterTaskStep(t, c) =>
            /\ conv_files'[c].transcript = loaded[c].transcript
            /\ Succeeds(t) => locals[t].agent.transcript = loaded[c].transcript]_vars

\* s is an interleaving of a and b: both keep their order in it, and every
\* element of s belongs to exactly one of them.
RECURSIVE IsMerge(_, _, _)
IsMerge(a, b, s) ==
    IF s = <<>> THEN a = <<>> /\ b = <<>>
    ELSE \/ a # <<>> /\ Head(a) = Head(s) /\ IsMerge(Tail(a), b, Tail(s))
         \/ b # <<>> /\ Head(b) = Head(s) /\ IsMerge(a, Tail(b), Tail(s))

\* Both clients were accepted for the stream of task t.
BothAttached(t) ==
    /\ ctask = t /\ cpc \in {"reading", "closed"}
    /\ ctask2 = t /\ cpc2 \in {"reading", "closed"}

\* C36: when two clients read the queue of one task, what the two have
\* received so far is, interleaved, the items produced so far without those
\* still on the queue, each item with one of the two; and a client has
\* terminated exactly if the last thing it received itself is `end`.
C36_TwoConsumersShare ==
    \A t \in TaskIds :
        BothAttached(t) =>
            LET n == Len(emitted) + Len(emitted2) IN
            /\ n + Len(queues[t]) = Len(produced[t])
            /\ queues[t] = SubSeq(produced[t], n + 1, Len(produced[t]))
            /\ IsMerge(emitted, emitted2, [i \in 1..n |-> SentFor(produced[t][i])])
            /\ cpc = "closed" <=> (emitted # <<>> /\ emitted[Len(emitted)] = EndEvent)
            /\ cpc2 = "closed" <=> (emitted2 # <<>> /\ emitted2[Len(emitted2)] = EndEvent)

\* C36 witness: the task is over and its queue empty; one client read the
\* sentinel and terminated, the other received an item before that and is
\* still waiting.
C36_Witness ==
    \E t \in TaskIds :
        /\ BothAttached(t)
        /\ pc[t] = "done"
        /\ queues[t] = <<>>
        /\ cpc = "closed"
        /\ cpc2 = "reading"
        /\ Len(emitted) >= 2
        /\ emitted2 # <<>>

====
